---- MODULE Spec2Model ----
(***************************************************************************)
(* Book Management System: the HTTP handlers of main.py over the          *)
(* repository functions of crud.py, the request schemas of schemas.py and *)
(* the tables of db/models.py.                                            *)
(*                                                                         *)
(* Strings are sequences of one-character strings.  A Python Optional or  *)
(* a nullable column is a set with at most one element: {} is None/NULL.  *)
(***************************************************************************)
EXTENDS Integers, Sequences, FiniteSets, TLC

VARIABLES books, authors, users, nextBookId, nextUserId, current_year, last,
          sessions

vars ==
    <<books, authors, users, nextBookId, nextUserId, current_year, last,
      sessions>>

(***************************************************************************)
(* Bounds of the model.                                                    *)
(***************************************************************************)
MaxBooks == 2      \* ids the books sequence hands out
MaxUsers == 2      \* ids the users sequence hands out
MaxBatch == 2      \* records in one bulk upload
ThisYear == 2025   \* the clock's year when the service starts
MaxCalls == 2      \* create_user calls in flight at once

MinYear == 1800

(***************************************************************************)
(* Optional values and strings.                                            *)
(***************************************************************************)
None == {}
Some(x) == {x}
The(o) == CHOOSE x \in o : TRUE

\* str.lower() on one character of the model's alphabet
LowerChar(c) ==
    CASE c = "D" -> "d"
      [] c = "N" -> "n"
      [] c = "A" -> "a"
      [] c = "B" -> "b"
      [] OTHER -> c

RECURSIVE LStrip(_)
LStrip(s) == IF s # <<>> /\ Head(s) = " " THEN LStrip(Tail(s)) ELSE s

RECURSIVE RStrip(_)
RStrip(s) ==
    IF s # <<>> /\ s[Len(s)] = " " THEN RStrip(SubSeq(s, 1, Len(s) - 1)) ELSE s

\* str.strip()
Strip(s) == RStrip(LStrip(s))

\* f"{v}" of an Optional[str]: None formats as the text None
Format(o) == IF o = None THEN <<"N", "o", "n", "e">> ELSE The(o)

\* f"%{v}%"
Pattern(o) == <<"%">> \o Format(o) \o <<"%">>

\* s ILIKE p: "%" matches any run of characters, letters match without case
RECURSIVE ILike(_, _)
ILike(s, p) ==
    IF p = <<>> THEN s = <<>>
    ELSE IF Head(p) = "%"
         THEN ILike(s, Tail(p)) \/ (s # <<>> /\ ILike(Tail(s), p))
         ELSE /\ s # <<>>
              /\ LowerChar(Head(s)) = LowerChar(Head(p))
              /\ ILike(Tail(s), Tail(p))

(***************************************************************************)
(* schemas.py                                                              *)
(***************************************************************************)
\* schemas.Genres: the values a request may carry
SchemaGenres == {"FICTION", "NONFICTION"}

\* db.models.Genres: the names of the column's enum
ModelGenres ==
    {"FICTION", "NONFICTION", "SCIENCE", "HISTORY", "FANTASY", "ROMANCE",
     "AUTOBIOGRAPHY"}

\* str.upper() on a genre text
Upper(g) ==
    CASE g = "fiction" -> "FICTION"
      [] g = "nonfiction" -> "NONFICTION"
      [] OTHER -> g

\* the lower boundary taken as exclusive
CreateYearOk_Exclusive(v, cy) == ~(v <= MinYear \/ v > cy)

\* BookCreate.valid_published_year
CreateYearOk(v, cy) == ~(v < MinYear \/ v > cy)

\* BookUpdate.valid_published_year
UpdateYearOk(o, cy) == o # None => ~(The(o) < MinYear \/ The(o) > cy)

\* DBBooks.validate_published_year
ModelYearOk(v, cy) == ~(v < MinYear \/ v > cy)

\* BookCreate(**draft): every field is required
BookCreateValid(d, cy) ==
    /\ d.title # None /\ Strip(The(d.title)) # <<>>
    /\ d.published_year # None /\ CreateYearOk(The(d.published_year), cy)
    /\ d.author_name # None
    /\ d.genre # None /\ The(d.genre) \in SchemaGenres

\* BookUpdate(**draft): every field is optional
BookUpdateValid(d, cy) ==
    /\ d.title # None => Strip(The(d.title)) # <<>>
    /\ UpdateYearOk(d.published_year, cy)
    /\ d.genre # None => The(d.genre) \in SchemaGenres

\* UserCreate(**draft)
UserCreateValid(u) ==
    /\ u.username # <<>> /\ Strip(u.username) # <<>>
    /\ u.password # <<>> /\ Strip(u.password) # <<>>

(***************************************************************************)
(* db/models.py: a row of the books table.  title and author are NOT NULL, *)
(* genre, published_year and authors_id are nullable.                      *)
(***************************************************************************)
DBBooks(title, author, genre, published_year) ==
    [title |-> title, author |-> author, genre |-> genre,
     published_year |-> published_year, authors_id |-> None]

\* dict(row) of SELECT * FROM books
RowDict(id, r) ==
    [id |-> id, title |-> r.title, author |-> r.author, genre |-> r.genre,
     published_year |-> r.published_year, authors_id |-> r.authors_id]

\* the RETURNING list of update_book
BookDict(id, r) ==
    [id |-> id, title |-> r.title, author |-> r.author, genre |-> r.genre,
     published_year |-> r.published_year]

\* the value of the member of db.models.Genres (a StrEnum of auto() values)
\* that the ORM loads for a stored enum name
EnumValue(name) ==
    CASE name = "FICTION" -> "fiction"
      [] name = "NONFICTION" -> "nonfiction"
      [] name = "SCIENCE" -> "science"
      [] name = "HISTORY" -> "history"
      [] name = "FANTASY" -> "fantasy"
      [] name = "ROMANCE" -> "romance"
      [] name = "AUTOBIOGRAPHY" -> "autobiography"

\* the dict create_book builds from the refreshed DBBooks object
CreatedDict(id, r) ==
    [id |-> id, title |-> r.title, author |-> r.author,
     genre |-> IF r.genre = None THEN None ELSE Some(EnumValue(The(r.genre))),
     published_year |-> r.published_year]

(***************************************************************************)
(* crud.py: each function is an operator from the table's rows and the     *)
(* call to what the call leaves: the status it ends with (200 for a        *)
(* return, the HTTPException's status for a raise, 500 for any other       *)
(* exception), the value returned, the table's rows after it, the next id  *)
(* of the table's sequence, and how often it committed and rolled back.    *)
(* fault is the storage layer failing the statement or the commit.         *)
(***************************************************************************)
Raised(status, detail, bks, nid, rollbacks) ==
    [status |-> status, detail |-> detail, body |-> <<>>, rows |-> bks,
     nextId |-> nid, commits |-> 0, rollbacks |-> rollbacks]

Returned(body, bks, nid, commits) ==
    [status |-> 200, detail |-> <<>>, body |-> body, rows |-> bks,
     nextId |-> nid, commits |-> commits, rollbacks |-> 0]

\* crud.create_book: the constructor validates the year, the INSERT is
\* flushed by the commit, and the refresh follows the commit inside the try
create_book(bks, nid, d, cy, fault) ==
    LET genre == IF d.genre # None THEN Some(Upper(The(d.genre))) ELSE None
        new_book ==
            DBBooks(The(d.title), The(d.author_name), genre, d.published_year)
        inserted ==
            [i \in DOMAIN bks \cup {nid} |-> IF i = nid THEN new_book ELSE bks[i]]
    IN  IF d.published_year = None
        THEN Raised(500, <<"Error creating book", "TypeError">>, bks, nid, 1)
        ELSE IF ~ModelYearOk(The(d.published_year), cy)
        THEN Raised(500, <<"Error creating book", "ValueError">>, bks, nid, 1)
        ELSE IF fault = "commit"
        THEN Raised(500, <<"Error creating book", "OperationalError">>, bks, nid, 1)
        ELSE IF \/ d.title = None
                \/ d.author_name = None
                \/ (genre # None /\ The(genre) \notin ModelGenres)
        THEN Raised(500, <<"Error creating book", "IntegrityError">>, bks, nid, 1)
        ELSE IF fault = "refresh"
        THEN [Raised(500, <<"Error creating book", "OperationalError">>,
                     inserted, nid + 1, 1) EXCEPT !.commits = 1]
        ELSE Returned(<<CreatedDict(nid, new_book)>>, inserted, nid + 1, 1)

\* crud.update_book: the 404 is raised inside the try and caught by it
update_book(bks, nid, book_id, d, fault) ==
    LET genre_value ==
            IF d.genre # None THEN Some(Upper(The(d.genre))) ELSE None
        row ==
            [bks[book_id] EXCEPT
                !.title = The(d.title),
                !.author = The(d.author_name),
                !.genre = genre_value,
                !.published_year = d.published_year]
    IN  IF fault = "execute"
        THEN Raised(500, <<"Error updating book", "OperationalError">>, bks, nid, 1)
        ELSE IF book_id \notin DOMAIN bks
        THEN Raised(500, <<"Error updating book", "404", "Book not found">>,
                    bks, nid, 1)
        ELSE IF \/ d.title = None
                \/ d.author_name = None
                \/ (genre_value # None /\ The(genre_value) \notin ModelGenres)
        THEN Raised(500, <<"Error updating book", "IntegrityError">>, bks, nid, 1)
        ELSE Returned(<<BookDict(book_id, row)>>, [bks EXCEPT ![book_id] = row],
                      nid, 1)

\* crud.get_book_by_id
get_book_by_id(bks, nid, book_id, fault) ==
    IF fault = "execute"
    THEN Raised(500, <<"Error retrieving book by id", "OperationalError">>,
                bks, nid, 1)
    ELSE IF book_id \in DOMAIN bks
    THEN Returned(<<RowDict(book_id, bks[book_id])>>, bks, nid, 0)
    ELSE Returned(<<>>, bks, nid, 0)

\* the DELETE without its WHERE clause
delete_book_EveryRow(bks, nid, book_id, fault) ==
    IF fault = "execute"
    THEN Raised(500, <<"Error deleting book", "OperationalError">>, bks, nid, 1)
    ELSE Returned(<<book_id \in DOMAIN bks>>, <<>>, nid, 1)

\* crud.delete_book: the value returned is result.rowcount == 1
delete_book(bks, nid, book_id, fault) ==
    IF fault = "execute"
    THEN Raised(500, <<"Error deleting book", "OperationalError">>, bks, nid, 1)
    ELSE LET deleted == {i \in DOMAIN bks : i = book_id}
         IN  Returned(<<Cardinality(deleted) = 1>>,
                      [i \in DOMAIN bks \ deleted |-> bks[i]], nid, 1)

\* the rows of the scan whose id is in matching, in scan order
RECURSIVE SelectRows(_, _, _)
SelectRows(bks, scan, matching) ==
    IF scan = <<>> THEN <<>>
    ELSE LET rest == SelectRows(bks, Tail(scan), matching)
         IN  IF Head(scan) \in matching
             THEN <<RowDict(Head(scan), bks[Head(scan)])>> \o rest
             ELSE rest

\* LIMIT :limit OFFSET :skip
LimitOffset(rows, limit, skip) ==
    SubSeq(rows, skip + 1,
           IF skip + limit < Len(rows) THEN skip + limit ELSE Len(rows))

\* published_year BETWEEN :year_from AND :year_to; NULL on any side is no match
Between(y, year_from, year_to) ==
    /\ y # None /\ year_from # None /\ year_to # None
    /\ The(year_from) <= The(y) /\ The(y) <= The(year_to)

\* crud.get_all_books: scan is the order in which the storage yields the rows
get_all_books(bks, scan) ==
    SelectRows(bks, scan, DOMAIN bks)

\* crud.get_filtered_books: genre.upper() raises on None; no ORDER BY
get_filtered_books(bks, nid, scan, title, author, genre, year_from, year_to, skip, limit) ==
    IF genre = None
    THEN Raised(500, <<"AttributeError">>, bks, nid, 0)
    ELSE LET Where(row) ==
                 /\ ILike(row.title, Pattern(title))
                 /\ ILike(row.author, Pattern(author))
                 /\ row.genre # None /\ The(row.genre) = Upper(The(genre))
                 /\ Between(row.published_year, year_from, year_to)
             matching == {i \in DOMAIN bks : Where(bks[i])}
         IN  Returned(LimitOffset(SelectRows(bks, scan, matching), limit, skip),
                      bks, nid, 0)

(***************************************************************************)
(* auth.py: one-way salted hashing and its verification.                   *)
(***************************************************************************)
get_password_hash(password) == <<"$2b$">> \o password

verify_password(password, hashed) == hashed = get_password_hash(password)

create_access_token(sub) == <<"jwt">> \o sub

(***************************************************************************)
(* crud.py: users.                                                         *)
(***************************************************************************)
DBUsers(username, hashed_password) ==
    [username |-> username, hashed_password |-> hashed_password]

\* the username column declared without unique=True
UsernameTaken_NoIndex(rows, username) == FALSE

\* DBUsers.username is unique=True: the index holds a row of this username
UsernameTaken(rows, username) == \E r \in rows : r.username = username

\* db.query(DBUsers).filter(DBUsers.username == username).first()
FirstUser(usrs, username) ==
    LET ids == {i \in DOMAIN usrs : usrs[i].username = username}
    IN  IF ids = {} THEN None
        ELSE Some(usrs[CHOOSE i \in ids : \A j \in ids : i <= j])

\* create_user without the existence pre-check
create_user_NoPreCheck(usrs, nid, u, fault) ==
    LET db_user == DBUsers(u.username, get_password_hash(u.password))
        inserted ==
            [i \in DOMAIN usrs \cup {nid} |-> IF i = nid THEN db_user ELSE usrs[i]]
    IN  IF fault = "commit"
        THEN Raised(500, <<"Internal Server Error", "OperationalError">>,
                    usrs, nid, 0)
        ELSE IF fault = "refresh"
        THEN [Raised(500, <<"Internal Server Error", "OperationalError">>,
                     inserted, nid + 1, 0) EXCEPT !.commits = 1]
        ELSE Returned(<<[id |-> nid, username |-> db_user.username]>>,
                      inserted, nid + 1, 1)

\* crud.create_user: nothing catches a failing commit or refresh, and
\* nothing rolls back
create_user(usrs, nid, u, fault) ==
    LET db_user == DBUsers(u.username, get_password_hash(u.password))
        inserted ==
            [i \in DOMAIN usrs \cup {nid} |-> IF i = nid THEN db_user ELSE usrs[i]]
    IN  IF FirstUser(usrs, u.username) # None
        THEN Raised(400, <<"Username already registered">>, usrs, nid, 0)
        ELSE IF fault = "commit"
        THEN Raised(500, <<"Internal Server Error", "OperationalError">>,
                    usrs, nid, 0)
        ELSE IF fault = "refresh"
        THEN [Raised(500, <<"Internal Server Error", "OperationalError">>,
                     inserted, nid + 1, 0) EXCEPT !.commits = 1]
        ELSE Returned(<<[id |-> nid, username |-> db_user.username]>>,
                      inserted, nid + 1, 1)

\* crud.authenticate_user: None for an unknown user and for a wrong password
authenticate_user(usrs, nid, username, password) ==
    LET user == FirstUser(usrs, username)
    IN  IF user = None \/ ~verify_password(password, The(user).hashed_password)
        THEN Returned(<<>>, usrs, nid, 0)
        ELSE Returned(<<The(user)>>, usrs, nid, 0)

(***************************************************************************)
(* main.py: the handlers.  A request body that fails its schema ends with  *)
(* 422 before the handler's body runs.  A handler's result is the value    *)
(* its body returns or the HTTPException it raises; the framework's        *)
(* serialisation of a returned value into the route's response_model is    *)
(* not part of the model.                                                  *)
(***************************************************************************)
\* except Exception as e: raise HTTPException(status, f"{message}: {e}")
Reraise(r, status, message) ==
    [r EXCEPT !.status = status, !.detail = <<message>> \o r.detail,
              !.body = <<>>]

\* POST /books/
create_new_book(bks, nid, d, cy, fault) ==
    IF ~BookCreateValid(d, cy)
    THEN Raised(422, <<"validation error">>, bks, nid, 0)
    ELSE LET r == create_book(bks, nid, d, cy, fault)
         IN  IF r.status # 200
             THEN Reraise(r, 500, "An error occurred while creating the book")
             ELSE r

\* GET /books/{book_id}
retrieve_book_by_id(bks, nid, book_id, fault) ==
    LET r == get_book_by_id(bks, nid, book_id, fault)
    IN  IF r.status = 200 /\ r.body = <<>>
        THEN [r EXCEPT !.status = 404, !.detail = <<"Book not found">>]
        ELSE r

\* PUT /books/{book_id}
put_book(bks, nid, book_id, d, cy, fault) ==
    IF ~BookUpdateValid(d, cy)
    THEN Raised(422, <<"validation error">>, bks, nid, 0)
    ELSE update_book(bks, nid, book_id, d, fault)

\* DELETE /books/{book_id}: the 404 is raised inside the handler's try
remove_book(bks, nid, book_id, fault) ==
    LET r == delete_book(bks, nid, book_id, fault)
        message == "An error occurred while deleting the book"
    IN  IF r.status # 200
        THEN Reraise(r, 500, message)
        ELSE IF ~r.body[1]
        THEN Reraise([r EXCEPT !.detail = <<"404", "Book not found">>], 500,
                     message)
        ELSE [r EXCEPT !.body = <<"Book deleted successfully">>]

\* GET /books/: sort_by and order are accepted and passed nowhere
retrieve_all_books(bks, nid, scan, f, skip, limit, sort_by, order) ==
    LET r == get_filtered_books(bks, nid, scan, f.title, f.author, f.genre,
                                f.year_from, f.year_to, skip, limit)
    IN  IF r.status # 200
        THEN Reraise(r, 500, "An error occurred while retrieving books")
        ELSE r

\* int(text) of a CSV cell: None stands for the ValueError
RECURSIVE ParseInt(_)
ParseInt(text) ==
    LET Digit(c) ==
            CASE c = "0" -> Some(0) [] c = "1" -> Some(1) [] c = "2" -> Some(2)
              [] c = "3" -> Some(3) [] c = "4" -> Some(4) [] c = "5" -> Some(5)
              [] c = "6" -> Some(6) [] c = "7" -> Some(7) [] c = "8" -> Some(8)
              [] c = "9" -> Some(9) [] OTHER -> None
    IN  IF text = <<>> THEN None
        ELSE LET d == Digit(text[Len(text)])
                 init == SubSeq(text, 1, Len(text) - 1)
             IN  IF d = None THEN None
                 ELSE IF init = <<>> THEN d
                 ELSE LET hi == ParseInt(init)
                      IN  IF hi = None THEN None
                          ELSE Some(10 * The(hi) + The(d))

\* the keywords the CSV branch passes to BookCreate: title, published_year,
\* genre and author (a mapping with the name); author_name is not passed
CsvKeywords(row) ==
    [title |-> Some(row.title), published_year |-> ParseInt(row.published_year),
     genre |-> Some(row.genre), author_name |-> None]

\* the loop of bulk_import_books over the uploaded records: a record that
\* BookCreate rejects is skipped; crud.create_book raising leaves the loop
\* and the handler, with what the earlier records committed
RECURSIVE ImportLoop(_, _, _, _, _, _, _, _)
ImportLoop(bks, nid, keywords, cy, faultAt, fault, i, acc) ==
    IF i > Len(keywords)
    THEN Returned(acc.body, bks, nid, acc.commits)
    ELSE LET kw == keywords[i]
         IN  IF kw.published_year = None \/ ~BookCreateValid(kw, cy)
             THEN ImportLoop(bks, nid, keywords, cy, faultAt, fault, i + 1, acc)
             ELSE LET r == create_book(bks, nid, kw, cy,
                                       IF faultAt = i THEN fault ELSE "none")
                  IN  IF r.status # 200
                      THEN [Reraise(r, 500, "An error occurred during bulk import")
                               EXCEPT !.commits = acc.commits + r.commits]
                      ELSE ImportLoop(r.rows, r.nextId, keywords, cy, faultAt,
                                      fault, i + 1,
                                      [body |-> acc.body \o r.body,
                                       commits |-> acc.commits + r.commits])

\* POST /books/bulk
bulk_import_books(bks, nid, content_type, data, cy, faultAt, fault) ==
    LET start == [body |-> <<>>, commits |-> 0]
    IN  IF content_type = "application/json"
        THEN ImportLoop(bks, nid, data, cy, faultAt, fault, 1, start)
        ELSE IF content_type \in {"text/csv", "application/vnd.ms-excel"}
        THEN ImportLoop(bks, nid, [i \in DOMAIN data |-> CsvKeywords(data[i])],
                        cy, faultAt, fault, 1, start)
        ELSE Raised(500, <<"An error occurred during bulk import", "400",
                           "Unsupported file type">>, bks, nid, 0)

\* POST /register
register(usrs, nid, u, fault) ==
    IF ~UserCreateValid(u)
    THEN Raised(422, <<"validation error">>, usrs, nid, 0)
    ELSE create_user(usrs, nid, u, fault)

\* POST /users/login
login(usrs, nid, username, password) ==
    LET user == FirstUser(usrs, username)
    IN  IF user = None
        THEN Raised(400, <<"User not found">>, usrs, nid, 0)
        ELSE IF ~verify_password(password, The(user).hashed_password)
        THEN Raised(400, <<"Incorrect password">>, usrs, nid, 0)
        ELSE Returned(<<[access_token |-> create_access_token(The(user).username),
                         token_type |-> "bearer"]>>, usrs, nid, 0)

(***************************************************************************)
(* The requests the model sends.                                           *)
(***************************************************************************)
Dune == <<"D", "u", "n", "e">>
NoneTitle == <<"N", "o", "n", "e">>
Blank == <<" ">>
Herbert == <<"A">>

Draft(t, a, g, y) ==
    [title |-> t, author_name |-> a, genre |-> g, published_year |-> y]

BaseDraft == Draft(Some(Dune), Some(Herbert), Some("FICTION"), Some(MinYear))

\* bodies of POST /books/: the base draft with one field varied
CreateDrafts(cy) ==
    {BaseDraft}
    \cup {[BaseDraft EXCEPT !.title = t] : t \in {Some(NoneTitle), Some(Blank), None}}
    \cup {[BaseDraft EXCEPT !.author_name = a] : a \in {Some(Blank), None}}
    \cup {[BaseDraft EXCEPT !.genre = g] :
            g \in {Some("NONFICTION"), Some("SCIENCE"), None}}
    \cup {[BaseDraft EXCEPT !.published_year = y] :
            y \in {Some(MinYear - 1), Some(cy), Some(cy + 1), None}}

\* bodies of PUT /books/{book_id}
UpdateDrafts(cy) ==
    { Draft(None, None, Some("NONFICTION"), None),
      Draft(Some(Dune), Some(Herbert), None, None),
      Draft(Some(NoneTitle), Some(Herbert), Some("NONFICTION"), Some(cy)),
      Draft(Some(Dune), Some(Herbert), Some("FICTION"), Some(MinYear)),
      Draft(Some(Blank), Some(Herbert), Some("FICTION"), Some(MinYear)),
      Draft(Some(Dune), Some(Herbert), Some("SCIENCE"), Some(MinYear)),
      Draft(Some(Dune), Some(Herbert), Some("FICTION"), Some(MinYear - 1)),
      Draft(Some(Dune), Some(Herbert), Some("FICTION"), Some(cy + 1)) }

BookIds == 1..MaxBooks

\* the storage call that fails during an operation, if one does
InsertFaults == {"none", "commit", "refresh"}
StatementFaults == {"none", "execute"}

\* query strings of GET /books/
Filter(t, a, g, yf, yt) ==
    [title |-> t, author |-> a, genre |-> g, year_from |-> yf, year_to |-> yt]

Unset == Filter(None, None, None, None, None)

MatchAll(cy) ==
    Filter(Some(<<>>), Some(<<>>), Some("FICTION"), Some(MinYear), Some(cy))

Filters(cy) ==
    { Unset,
      Filter(None, None, Some("FICTION"), None, None),
      MatchAll(cy),
      Filter(None, Some(<<>>), Some("FICTION"), Some(MinYear), Some(cy)),
      Filter(Some(<<"U", "N">>), Some(<<"a">>), Some("NONFICTION"),
             Some(MinYear), Some(cy)) }

DefaultLimit == 10

Skips == {0, 1}
Limits == {1, DefaultLimit}
SortColumns == {"title", "published_year", "author"}
SortBys == SortColumns \cup {"dropped; --"}
Directions == {"asc", "desc"}
Orders == Directions \cup {"sideways"}

Query(f, skip, limit, sort_by, order) ==
    [filter |-> f, skip |-> skip, limit |-> limit, sort_by |-> sort_by,
     order |-> order]

\* every filter under every pagination with the default sort, and every sort
\* of the filter that matches the FICTION books
Queries(cy) ==
    {Query(f, skip, limit, "title", "asc") :
        f \in Filters(cy), skip \in Skips, limit \in Limits}
    \cup {Query(MatchAll(cy), 0, DefaultLimit, sort_by, order) :
            sort_by \in SortBys, order \in Orders}

\* the orders in which a scan without ORDER BY may yield the rows
Scans(bks) ==
    LET n == Cardinality(DOMAIN bks)
    IN  {s \in [1..n -> DOMAIN bks] : \A i, j \in 1..n : s[i] = s[j] => i = j}

\* uploads of POST /books/bulk
JsonRecords(cy) ==
    { BaseDraft, [BaseDraft EXCEPT !.published_year = Some(cy + 1)] }

CsvRow(t, y, g, a) ==
    [title |-> t, published_year |-> y, genre |-> g, author_name |-> a]

CsvRows ==
    { CsvRow(Dune, <<"1", "8", "0", "0">>, "FICTION", Herbert),
      CsvRow(Dune, <<"3", "0", "0", "0">>, "FICTION", Herbert) }

ContentTypes == {"application/json", "text/csv", "text/plain"}

Uploads(content_type, cy) ==
    IF content_type = "application/json"
    THEN UNION {[1..n -> JsonRecords(cy)] : n \in 0..MaxBatch}
    ELSE IF content_type = "text/csv"
    THEN UNION {[1..n -> CsvRows] : n \in 0..MaxBatch}
    ELSE {<<>>}

\* bodies of POST /register and the forms of POST /users/login
Alice == <<"a">>
Bob == <<"b">>
Secret == <<"p">>
Wrong == <<"q">>
Carol == <<"c">>

Credentials(u, pw) == [username |-> u, password |-> pw]

UserDrafts ==
    { Credentials(Alice, Secret), Credentials(Alice, Wrong),
      Credentials(Bob, Secret), Credentials(Blank, Secret),
      Credentials(Alice, Blank) }

LoginForms ==
    {Credentials(u, pw) : u \in {Alice, Bob, Carol}, pw \in {Secret, Wrong}}

(***************************************************************************)
(* State.  books, authors and users are the committed tables; last is the *)
(* most recent call as its caller saw it.                                  *)
(***************************************************************************)
Observe(op, arg, id, r) ==
    [op |-> op, arg |-> arg, id |-> id, status |-> r.status,
     detail |-> r.detail, body |-> r.body, commits |-> r.commits,
     rollbacks |-> r.rollbacks]

Idle ==
    [op |-> "none", arg |-> None, id |-> 0, status |-> 200, detail |-> <<>>,
     body |-> <<>>, commits |-> 0, rollbacks |-> 0]

\* the create_user calls that may run at once, and a call not yet made
Calls == 1..MaxCalls

NoCall ==
    [pc |-> "idle", user |-> None, db_user |-> None, id |-> 0, status |-> 0,
     detail |-> <<>>]

Init ==
    /\ books = <<>>
    /\ authors = <<>>
    /\ users = <<>>
    /\ nextBookId = 1
    /\ nextUserId = 1
    /\ current_year = ThisYear
    /\ last = Idle
    /\ sessions = [c \in Calls |-> NoCall]

\* datetime.datetime.now().year moves on; no call is made
NewYear ==
    /\ current_year = ThisYear
    /\ current_year' = current_year + 1
    /\ last' = Idle
    /\ UNCHANGED <<books, authors, users, nextBookId, nextUserId, sessions>>

CreateNewBook ==
    \E d \in CreateDrafts(current_year), fault \in InsertFaults :
        /\ nextBookId <= MaxBooks
        /\ LET r == create_new_book(books, nextBookId, d, current_year, fault)
           IN  /\ books' = r.rows
               /\ nextBookId' = r.nextId
               /\ last' = Observe("create", d, 0, r)
        /\ UNCHANGED <<authors, users, nextUserId, current_year, sessions>>

RetrieveBookById ==
    \E id \in BookIds, fault \in StatementFaults :
        /\ LET r == retrieve_book_by_id(books, nextBookId, id, fault)
           IN  /\ books' = r.rows
               /\ nextBookId' = r.nextId
               /\ last' = Observe("get", None, id, r)
        /\ UNCHANGED <<authors, users, nextUserId, current_year, sessions>>

UpdateBook ==
    \E id \in BookIds, d \in UpdateDrafts(current_year),
       fault \in StatementFaults :
        /\ LET r == put_book(books, nextBookId, id, d, current_year, fault)
           IN  /\ books' = r.rows
               /\ nextBookId' = r.nextId
               /\ last' = Observe("update", d, id, r)
        /\ UNCHANGED <<authors, users, nextUserId, current_year, sessions>>

DeleteBook ==
    \E id \in BookIds, fault \in StatementFaults :
        /\ LET r == remove_book(books, nextBookId, id, fault)
           IN  /\ books' = r.rows
               /\ nextBookId' = r.nextId
               /\ last' = Observe("delete", None, id, r)
        /\ UNCHANGED <<authors, users, nextUserId, current_year, sessions>>

RetrieveAllBooks ==
    \E q \in Queries(current_year), scan \in Scans(books) :
        /\ LET r == retrieve_all_books(books, nextBookId, scan, q.filter, q.skip,
                                       q.limit, q.sort_by, q.order)
           IN  /\ books' = r.rows
               /\ nextBookId' = r.nextId
               /\ last' = Observe("list", q, 0, r)
        /\ UNCHANGED <<authors, users, nextUserId, current_year, sessions>>

BulkImportBooks ==
    \E content_type \in ContentTypes :
      \E data \in Uploads(content_type, current_year),
         faultAt \in 0..MaxBatch, fault \in InsertFaults :
        /\ nextBookId + Len(data) <= MaxBooks + 1
        /\ faultAt <= Len(data)
        /\ (faultAt = 0) = (fault = "none")
        /\ LET r == bulk_import_books(books, nextBookId, content_type, data,
                                      current_year, faultAt, fault)
           IN  /\ books' = r.rows
               /\ nextBookId' = r.nextId
               /\ last' = Observe("bulk",
                                  [content_type |-> content_type, data |-> data,
                                   faultAt |-> faultAt], 0, r)
        /\ UNCHANGED <<authors, users, nextUserId, current_year, sessions>>

Register ==
    \E u \in UserDrafts, fault \in InsertFaults :
        /\ nextUserId <= MaxUsers
        /\ LET r == register(users, nextUserId, u, fault)
           IN  /\ users' = r.rows
               /\ nextUserId' = r.nextId
               /\ last' = Observe("register", u, 0, r)
        /\ UNCHANGED <<books, authors, nextBookId, current_year, sessions>>

Login ==
    \E form \in LoginForms :
        /\ LET r == login(users, nextUserId, form.username, form.password)
           IN  /\ users' = r.rows
               /\ nextUserId' = r.nextId
               /\ last' = Observe("login", form, 0, r)
        /\ UNCHANGED <<books, authors, nextBookId, current_year, sessions>>

AuthenticateUser ==
    \E form \in LoginForms :
        /\ LET r == authenticate_user(users, nextUserId, form.username,
                                      form.password)
           IN  /\ users' = r.rows
               /\ nextUserId' = r.nextId
               /\ last' = Observe("authenticate", form, 0, r)
        /\ UNCHANGED <<books, authors, nextBookId, current_year, sessions>>

(***************************************************************************)
(* POST /register served to several clients at once.  Each request has its *)
(* own session; sessions[c] is where call c of create_user stands: the row *)
(* it has added, the id its INSERT was given and how it ended.             *)
(***************************************************************************)
\* the request arrives: UserCreate validates the body, create_user is called
CallRegister(c) ==
    /\ sessions[c].pc = "idle"
    /\ \E u \in UserDrafts :
          sessions' = [sessions EXCEPT ![c] =
              IF UserCreateValid(u)
              THEN [NoCall EXCEPT !.pc = "query", !.user = Some(u)]
              ELSE [NoCall EXCEPT !.pc = "done", !.user = Some(u),
                                  !.status = 422,
                                  !.detail = <<"validation error">>]]
    /\ UNCHANGED <<books, authors, users, nextBookId, nextUserId, current_year,
                   last>>

\* create_user: the existence query on the committed rows, then either the
\* 400 or the hashing and db.add of the new row
PreCheck(c) ==
    /\ sessions[c].pc = "query"
    /\ LET u == The(sessions[c].user)
       IN  sessions' = [sessions EXCEPT ![c] =
               IF FirstUser(users, u.username) # None
               THEN [@ EXCEPT !.pc = "done", !.status = 400,
                              !.detail = <<"Username already registered">>]
               ELSE [@ EXCEPT !.pc = "commit",
                              !.db_user = Some(DBUsers(u.username,
                                               get_password_hash(u.password)))]]
    /\ UNCHANGED <<books, authors, users, nextBookId, nextUserId, current_year,
                   last>>

\* db.commit(), the flush: the INSERT waits while another transaction holds
\* an uncommitted row of the same username in the unique index, and fails
\* when a committed row has it
Flush(c) ==
    /\ sessions[c].pc = "commit"
    /\ LET row == The(sessions[c].db_user)
           others == {o \in Calls \ {c} : sessions[o].pc = "flushed"}
           uncommitted == {The(sessions[o].db_user) : o \in others}
           committed == {users[i] : i \in DOMAIN users}
       IN  /\ ~UsernameTaken(uncommitted, row.username)
           /\ IF UsernameTaken(committed, row.username)
              THEN /\ sessions' = [sessions EXCEPT ![c] =
                          [@ EXCEPT !.pc = "done", !.status = 500,
                                    !.detail = <<"Internal Server Error",
                                                 "IntegrityError">>]]
                   /\ nextUserId' = nextUserId
              ELSE /\ sessions' = [sessions EXCEPT ![c] =
                          [@ EXCEPT !.pc = "flushed", !.id = nextUserId]]
                   /\ nextUserId' = nextUserId + 1
    /\ UNCHANGED <<books, authors, users, nextBookId, current_year, last>>

\* db.commit(), the COMMIT: the inserted row becomes visible to every session
Commit(c) ==
    /\ sessions[c].pc = "flushed"
    /\ LET id == sessions[c].id
       IN  users' = [i \in DOMAIN users \cup {id} |->
                       IF i = id THEN The(sessions[c].db_user) ELSE users[i]]
    /\ sessions' = [sessions EXCEPT ![c] = [@ EXCEPT !.pc = "refresh"]]
    /\ UNCHANGED <<books, authors, nextBookId, nextUserId, current_year, last>>

\* db.refresh(db_user) and the return
Refresh(c) ==
    /\ sessions[c].pc = "refresh"
    /\ sessions' = [sessions EXCEPT ![c] = [@ EXCEPT !.pc = "done", !.status = 200]]
    /\ UNCHANGED <<books, authors, users, nextBookId, nextUserId, current_year,
                   last>>

\* the book endpoints
Next ==
    \/ NewYear
    \/ CreateNewBook
    \/ RetrieveBookById
    \/ UpdateBook
    \/ DeleteBook
    \/ BulkImportBooks

Spec == Init /\ [][Next]_vars

\* the catalog and its listing
NextList ==
    \/ CreateNewBook
    \/ RetrieveAllBooks

SpecList == Init /\ [][NextList]_vars

\* the operations that write
NextWrite ==
    \/ CreateNewBook
    \/ UpdateBook
    \/ DeleteBook
    \/ Register

SpecWrite == Init /\ [][NextWrite]_vars

\* the user endpoints
NextAuth ==
    \/ Register
    \/ Login
    \/ AuthenticateUser

SpecAuth == Init /\ [][NextAuth]_vars

\* registrations in flight at once, step by step
NextRace ==
    \E c \in Calls :
        \/ CallRegister(c)
        \/ PreCheck(c)
        \/ Flush(c)
        \/ Commit(c)
        \/ Refresh(c)

SpecRace == Init /\ [][NextRace]_vars

(***************************************************************************)
(* Properties.                                                             *)
(***************************************************************************)
\* the call ended in a fault of the storage layer itself
StorageFault(o) ==
    o.detail # <<>> /\ o.detail[Len(o.detail)] = "OperationalError"

\* the request was rejected by its schema before the operation ran
Rejected(o) == o.status = 422

\* C1: a create whose author name no Author row carries adds exactly one
\* Author row and one Book row that references it; a create whose author
\* name is already stored adds no Author row and its Book references the
\* stored Author.
C1_Step ==
    (last'.op = "create" /\ last'.status = 200) =>
        LET name == The(last'.arg.author_name)
            id == last'.body[1].id
            known == {a \in DOMAIN authors : authors[a].name = name}
        IN  /\ id \notin DOMAIN books
            /\ DOMAIN books' = DOMAIN books \cup {id}
            /\ IF known = {}
               THEN \E a \in DOMAIN authors' \ DOMAIN authors :
                        /\ DOMAIN authors' = DOMAIN authors \cup {a}
                        /\ authors'[a].name = name
                        /\ books'[id].authors_id = Some(a)
               ELSE /\ authors' = authors
                    /\ \E a \in known : books'[id].authors_id = Some(a)

C1_CreateAddsAuthorAndBook == [][C1_Step]_vars

\* C2: a listing with every filter criterion unset succeeds and returns the
\* page (skip, limit) of all the stored books.
C2_UnsetFiltersListAll ==
    (last.op = "list" /\ last.arg.filter = Unset) =>
        /\ last.status = 200
        /\ \E scan \in Scans(books) :
               last.body = LimitOffset(get_all_books(books, scan),
                                       last.arg.limit, last.arg.skip)

\* C3: an update or a delete of an id that no Book has ends with 404, not
\* with the server-fault status, and leaves books and authors as they were.
C3_Step ==
    ( /\ last'.op \in {"update", "delete"}
      /\ last'.id \notin DOMAIN books
      /\ ~Rejected(last')
      /\ ~StorageFault(last') ) =>
        /\ last'.status = 404
        /\ books' = books
        /\ authors' = authors

C3_MissingIdIsNotFound == [][C3_Step]_vars

\* the stored row with the fields the draft carries overridden
Merge(row, d) ==
    [row EXCEPT
        !.title = IF d.title = None THEN @ ELSE The(d.title),
        !.author = IF d.author_name = None THEN @ ELSE The(d.author_name),
        !.genre = IF d.genre = None THEN @ ELSE d.genre,
        !.published_year = IF d.published_year = None THEN @ ELSE d.published_year]

\* C4: an update of an existing Book stores and returns the stored record
\* with the draft's present fields overridden and its absent fields kept.
C4_Step ==
    ( /\ last'.op = "update"
      /\ last'.id \in DOMAIN books
      /\ ~Rejected(last')
      /\ ~StorageFault(last') ) =>
        LET merged == Merge(books[last'.id], last'.arg)
        IN  /\ last'.status = 200
            /\ books'[last'.id] = merged
            /\ last'.body = <<BookDict(last'.id, merged)>>

C4_UpdateMerges == [][C4_Step]_vars

\* a CSV row that satisfies the rules of BookCreate
CsvRowValid(row, cy) ==
    /\ Strip(row.title) # <<>>
    /\ ParseInt(row.published_year) # None
    /\ MinYear <= The(ParseInt(row.published_year))
    /\ The(ParseInt(row.published_year)) <= cy
    /\ row.genre \in SchemaGenres

\* the records of an upload that are valid and that the storage accepts
Importable(arg, cy) ==
    {i \in DOMAIN arg.data :
        /\ i # arg.faultAt
        /\ IF arg.content_type = "application/json"
           THEN BookCreateValid(arg.data[i], cy)
           ELSE CsvRowValid(arg.data[i], cy)}

\* C5: a bulk import in either shape ends without an error, returns one
\* created Book for every record that is valid and persists, and skips the
\* others.
C5_Step ==
    (last'.op = "bulk" /\ last'.arg.content_type \in {"application/json", "text/csv"}) =>
        LET n == Cardinality(Importable(last'.arg, current_year))
        IN  /\ last'.status = 200
            /\ Len(last'.body) = n
            /\ Cardinality(DOMAIN books') = Cardinality(DOMAIN books) + n

C5_BulkImportSkips == [][C5_Step]_vars

\* C6: when create book, update book, delete book or create user ends in an
\* error, a rollback preceded the error and books, authors and users are
\* what they were before the call.
C6_Step ==
    ( /\ last'.op \in {"create", "update", "delete", "register"}
      /\ last'.status >= 400
      /\ ~Rejected(last') ) =>
        /\ last'.rollbacks >= 1
        /\ books' = books
        /\ authors' = authors
        /\ users' = users

C6_ErrorRollsBack == [][C6_Step]_vars

\* the order of the characters of the model's strings
CharCode(c) ==
    CASE c = " " -> 32 [] c = "A" -> 65 [] c = "B" -> 66 [] c = "D" -> 68
      [] c = "N" -> 78 [] c = "a" -> 97 [] c = "b" -> 98 [] c = "d" -> 100
      [] c = "e" -> 101 [] c = "n" -> 110 [] c = "o" -> 111 [] c = "u" -> 117
      [] OTHER -> 127

RECURSIVE StrLeq(_, _)
StrLeq(s, t) ==
    IF s = <<>> THEN TRUE
    ELSE IF t = <<>> THEN FALSE
    ELSE IF Head(s) = Head(t) THEN StrLeq(Tail(s), Tail(t))
    ELSE CharCode(Head(s)) < CharCode(Head(t))

\* row a may stand before row b under ORDER BY sort_by ASC
KeyLeq(a, b, sort_by) ==
    CASE sort_by = "title" -> StrLeq(a.title, b.title)
      [] sort_by = "author" -> StrLeq(a.author, b.author)
      [] sort_by = "published_year" ->
            The(a.published_year) <= The(b.published_year)

Ordered(rows, sort_by, order) ==
    \A i, j \in DOMAIN rows :
        i < j => IF order = "asc" THEN KeyLeq(rows[i], rows[j], sort_by)
                 ELSE KeyLeq(rows[j], rows[i], sort_by)

\* C7: a listing that succeeds is ordered by the requested column and
\* direction when both are on their allow-lists and by title ascending
\* otherwise, and a value off the allow-lists does not make a listing fail.
C7_ListingIsSorted ==
    last.op = "list" =>
        LET listed == last.arg.sort_by \in SortColumns /\ last.arg.order \in Directions
        IN  /\ last.status = 200 =>
                  IF listed
                  THEN Ordered(last.body, last.arg.sort_by, last.arg.order)
                  ELSE Ordered(last.body, "title", "asc")
            /\ (~listed /\ last.arg.filter = MatchAll(current_year)) =>
                  last.status = 200

\* what a caller sees of a call
Outcome(o) == <<o.status, o.detail, o.body>>

\* C8: at each entry point that verifies credentials, a known username with
\* a wrong password and an unknown username end in the same outcome.
C8_Step ==
    ( /\ last.op \in {"login", "authenticate"}
      /\ last'.op = last.op
      /\ FirstUser(users, last.arg.username) # None
      /\ ~verify_password(last.arg.password,
                          The(FirstUser(users, last.arg.username)).hashed_password)
      /\ FirstUser(users, last'.arg.username) = None ) =>
        Outcome(last') = Outcome(last)

C8_SameAuthFailure == [][C8_Step]_vars

\* C9: with the other fields valid, a create or an update that carries a
\* published_year is rejected by validation when the year is below 1800 or
\* above the current year, and passes validation for every year from 1800
\* to the current year, both included.
C9_YearValidation ==
    LET d == last.arg
        y == The(d.published_year)
        genres == {Some("FICTION"), Some("NONFICTION")}
    IN  /\ ( /\ last.op = "create"
             /\ d.published_year # None
             /\ d.title # None /\ Strip(The(d.title)) # <<>>
             /\ d.author_name # None
             /\ d.genre \in genres ) =>
               /\ (y < 1800 \/ y > current_year) => last.status = 422
               /\ (1800 <= y /\ y <= current_year) =>
                     (last.status = 200 \/ StorageFault(last))
        /\ ( /\ last.op = "update"
             /\ d.published_year # None
             /\ d.title # None => Strip(The(d.title)) # <<>>
             /\ d.genre \in genres \cup {None} ) =>
               /\ (y < 1800 \/ y > current_year) => last.status = 422
               /\ (1800 <= y /\ y <= current_year) => last.status # 422

\* a create at the upper boundary, the current year, was accepted and stored
C9_Witness ==
    /\ last.op = "create"
    /\ last.arg.published_year = Some(current_year)
    /\ last.status = 200
    /\ \E id \in DOMAIN books : books[id].published_year = Some(current_year)

\* C10: the id a create returns reads back the draft's title, year, genre
\* and author name; a stored Book leaves the table only by a successful
\* delete of its id; a delete of a stored id removes exactly that row,
\* commits once and succeeds; a read has no side effect; and an id that was
\* deleted is never found again.
C10_Step ==
    /\ (last'.op = "create" /\ last'.status = 200) =>
          LET d == last'.arg
              id == last'.body[1].id
              r == get_book_by_id(books', nextBookId', id, "none")
          IN  /\ id \notin DOMAIN books
              /\ r.status = 200 /\ Len(r.body) = 1
              /\ r.body[1].id = id
              /\ r.body[1].title = The(d.title)
              /\ r.body[1].published_year = d.published_year
              /\ r.body[1].genre = d.genre
              /\ r.body[1].author = The(d.author_name)
    /\ \A id \in DOMAIN books :
          id \notin DOMAIN books' =>
              last'.op = "delete" /\ last'.id = id /\ last'.status = 200
    /\ (last'.op = "delete" /\ last'.id \in DOMAIN books /\ ~StorageFault(last')) =>
          /\ last'.status = 200
          /\ last'.commits = 1
          /\ books' = [i \in DOMAIN books \ {last'.id} |-> books[i]]
    /\ (last'.op = "get" /\ ~StorageFault(last')) =>
          /\ books' = books
          /\ IF last'.id \in DOMAIN books
             THEN /\ last'.status = 200
                  /\ last'.body = <<RowDict(last'.id, books[last'.id])>>
             ELSE last'.status = 404
    /\ \A id \in 1..(nextBookId - 1) :
          id \notin DOMAIN books => id \notin DOMAIN books'

C11_Step ==
    (last'.op = "register" /\ ~Rejected(last') /\ ~StorageFault(last')) =>
        LET u == last'.arg
            taken == \E i \in DOMAIN users : users[i].username = u.username
        IN  IF taken
            THEN /\ last'.status = 400
                 /\ last'.detail = <<"Username already registered">>
                 /\ users' = users
            ELSE /\ last'.status = 200
                 /\ \E id \in DOMAIN users' \ DOMAIN users :
                        /\ DOMAIN users' = DOMAIN users \cup {id}
                        /\ \A i \in DOMAIN users : users'[i] = users[i]
                        /\ users'[id].username = u.username
                        /\ users'[id].hashed_password # u.password
                        /\ users'[id].hashed_password = get_password_hash(u.password)

C11_CreateUserConflict == [][C11_Step]_vars

\* a registration of a stored username was refused as already registered,
\* and the stored user of that name holds a credential that is not the
\* password it registered with
C11_Witness ==
    /\ last.op = "register"
    /\ last.status = 400
    /\ last.detail = <<"Username already registered">>
    /\ \E i \in DOMAIN users :
           /\ users[i].username = last.arg.username
           /\ \E pw \in {Secret, Wrong} :
                  /\ verify_password(pw, users[i].hashed_password)
                  /\ users[i].hashed_password # pw

\* C12: in every reachable state every stored Book has a title and an
\* author name that are not empty after trimming, a published_year from
\* 1800 to the current year and a genre of the enumerated set.
C12_StoredBooksValid ==
    \A id \in DOMAIN books :
        LET b == books[id]
        IN  /\ Strip(b.title) # <<>>
            /\ Strip(b.author) # <<>>
            /\ b.published_year # None
            /\ 1800 <= The(b.published_year)
            /\ The(b.published_year) <= current_year
            /\ b.genre # None
            /\ The(b.genre) \in ModelGenres

\* the call has committed its row
Persisted(s) == s.pc = "refresh" \/ (s.pc = "done" /\ s.status = 200)

\* C13: under every interleaving of the steps of concurrent create_user
\* calls, no two stored users have the same username, and of two calls with
\* the same username at most one persists a user.
C13_NoDuplicateUsername ==
    /\ \A i, j \in DOMAIN users :
           users[i].username = users[j].username => i = j
    /\ \A c, o \in Calls :
           ( /\ c # o
             /\ sessions[c].user # None
             /\ sessions[o].user # None
             /\ The(sessions[c].user).username = The(sessions[o].user).username ) =>
               ~(Persisted(sessions[c]) /\ Persisted(sessions[o]))

\* two calls with the same username both passed the pre-check before either
\* committed; one has stored its user and the other was refused by the index
C13_Witness ==
    \E c, o \in Calls :
        /\ c # o
        /\ sessions[c].db_user # None
        /\ sessions[o].db_user # None
        /\ The(sessions[c].db_user).username = The(sessions[o].db_user).username
        /\ Persisted(sessions[c])
        /\ sessions[o].pc = "done"
        /\ sessions[o].status = 500
        /\ \E i \in DOMAIN users :
               users[i].username = The(sessions[c].db_user).username

====
